---- MODULE Spec2Model ----
(***************************************************************************)
(* ChristmasStar (src/src/christmas_star/mod.rs): the star's mesh          *)
(* generator, its GL resource lifecycle (new / init / close) and its       *)
(* per-frame update / draw, against a mock GL context.                     *)
(*                                                                         *)
(* Number representations                                                  *)
(*  - light position, delta: f32 values as integers in units of 2^-30.     *)
(*    Every value reachable from (0.4, 0.5, 0.5) by adding +-0.01f32 is a  *)
(*    multiple of 2^-30, and F32Round is IEEE round-to-nearest-even onto   *)
(*    the 24-bit significand grid, so F32Add is the machine's `+=`.        *)
(*  - geometry: exact integers in units of 0.05 (all defaults of new()     *)
(*    are multiples of it).  normalize keeps a vector's direction as its   *)
(*    primitive integer vector; the zero vector stands for the NaN vector  *)
(*    that normalising a zero-length cross product gives.                  *)
(***************************************************************************)
EXTENDS Integers, Sequences, FiniteSets, TLC

VARIABLES
  geometry,     \* ChristmasStar.geometry
  resource,     \* ChristmasStar.resource
  directional,  \* ChristmasStar.directional
  gl,           \* the GL context: live objects and bindings
  lastOp,       \* call log: the last operation, its result and its delete requests
  prevOp,       \* call log: the operation before the last
  closedOnce,   \* call log: close has been called on the star while it was ready
  ops           \* call log: how many operations the host has called

vars == <<geometry, resource, directional, gl, lastOp, prevOp, closedOnce, ops>>

----------------------------------------------------------------------------
(* Bounds of the model *)

\* Spec: how many operations the host calls on one object
MaxOps == 3
\* SpecGen: how many times init is called on one object
MaxGenOps == 2
\* SpecUpdate: how far down (in steps of delta) the light's Y may drift, and
\* how far sideways its X may
MaxDown == 76
MaxSide == 1

----------------------------------------------------------------------------
(* f32 arithmetic on integers in units of 2^-30 *)

Abs(n) == IF n < 0 THEN -n ELSE n

\* the spacing of f32 values around magnitude a (a < 2^31, i.e. below 2.0)
F32Ulp(a) ==
  IF a < 16777216 THEN 1
  ELSE IF a < 33554432 THEN 2
  ELSE IF a < 67108864 THEN 4
  ELSE IF a < 134217728 THEN 8
  ELSE IF a < 268435456 THEN 16
  ELSE IF a < 536870912 THEN 32
  ELSE IF a < 1073741824 THEN 64
  ELSE 128

\* round to nearest, ties to even
F32Round(n) ==
  LET a == Abs(n)
      u == F32Ulp(a)
      q == a \div u
      r == a % u
      up == (2 * r > u) \/ (2 * r = u /\ q % 2 = 1)
      m == (IF up THEN q + 1 ELSE q) * u
  IN IF n < 0 THEN -m ELSE m

F32Add(a, b) == F32Round(a + b)

\* 0.01 as f32: 10737418 * 2^-30
Delta == 10737418

----------------------------------------------------------------------------
(* cgmath vectors *)

Vector3(a, b, c) == [x |-> a, y |-> b, z |-> c]
Vector4(a, b, c, d) == [x |-> a, y |-> b, z |-> c, w |-> d]

sub(a, b) == Vector3(a.x - b.x, a.y - b.y, a.z - b.z)

cross(a, b) ==
  Vector3(a.y * b.z - a.z * b.y, a.z * b.x - a.x * b.z, a.x * b.y - a.y * b.x)

RECURSIVE Gcd(_, _)
Gcd(a, b) == IF b = 0 THEN a ELSE Gcd(b, a % b)

\* the direction of v; the zero vector (NaN in f32) stays zero
normalize(v) ==
  LET g == Gcd(Gcd(Abs(v.x), Abs(v.y)), Abs(v.z))
  IN IF g = 0 THEN v ELSE Vector3(v.x \div g, v.y \div g, v.z \div g)

Vertex(pos, norm, diffuse) ==
  [position |-> pos, normal |-> norm, diffuse_color |-> diffuse]

----------------------------------------------------------------------------
(* Mesh generator *)

calculate_normal(v0, v1, v2) ==
  LET e0 == sub(v1, v0)
      e1 == sub(v2, v0)
  IN normalize(cross(e0, e1))

\* a slip: each normal is taken from the face in the order it is emitted
add_partial_vertices_emitted_order(center, left_canyon_offset, right_canyon_offset, left_long_spike, right_long_spike, short_spike, depth, vertices) ==
  LET lcox == left_canyon_offset.x
      lcoy == left_canyon_offset.y
      rcox == right_canyon_offset.x
      rcoy == right_canyon_offset.y
      cx == center.x
      cy == center.y
      cz == center.z
      llsx == left_long_spike.x
      llsy == left_long_spike.y
      rlsx == right_long_spike.x
      rlsy == right_long_spike.y
      ssx == short_spike.x
      ssy == short_spike.y
      top == cz + depth
      c == Vector3(cx, cy, top)
      lc == Vector3(cx + lcox, cy + lcoy, cz)
      rc == Vector3(cx + rcox, cy + rcoy, cz)
      ss == Vector3(cx + ssx, cy + ssy, cz)
      ll == Vector3(cx + llsx, cy + llsy, cz)
      rl == Vector3(cx + rlsx, cy + rlsy, cz)
      n0 == calculate_normal(c, ll, lc)
      diffuse == Vector4(18, 18, 0, 20)
      n1 == calculate_normal(c, lc, ss)
      n2 == calculate_normal(c, ss, rc)
      n3 == calculate_normal(c, rc, rl)
  IN vertices \o
     << Vertex(c, n0, diffuse), Vertex(ll, n0, diffuse), Vertex(lc, n0, diffuse),
        Vertex(c, n1, diffuse), Vertex(lc, n1, diffuse), Vertex(ss, n1, diffuse),
        Vertex(c, n2, diffuse), Vertex(ss, n2, diffuse), Vertex(rc, n2, diffuse),
        Vertex(c, n3, diffuse), Vertex(rc, n3, diffuse), Vertex(rl, n3, diffuse) >>

add_partial_vertices(center, left_canyon_offset, right_canyon_offset, left_long_spike, right_long_spike, short_spike, depth, vertices) ==
  LET lcox == left_canyon_offset.x
      lcoy == left_canyon_offset.y
      rcox == right_canyon_offset.x
      rcoy == right_canyon_offset.y
      cx == center.x
      cy == center.y
      cz == center.z
      llsx == left_long_spike.x
      llsy == left_long_spike.y
      rlsx == right_long_spike.x
      rlsy == right_long_spike.y
      ssx == short_spike.x
      ssy == short_spike.y
      top == cz + depth
      c == Vector3(cx, cy, top)
      lc == Vector3(cx + lcox, cy + lcoy, cz)
      rc == Vector3(cx + rcox, cy + rcoy, cz)
      ss == Vector3(cx + ssx, cy + ssy, cz)
      ll == Vector3(cx + llsx, cy + llsy, cz)
      rl == Vector3(cx + rlsx, cy + rlsy, cz)
      n0 == calculate_normal(c, lc, ll)
      diffuse == Vector4(18, 18, 0, 20)
      n1 == calculate_normal(c, ss, lc)
      n2 == calculate_normal(c, rc, ss)
      n3 == calculate_normal(c, rl, rc)
  IN vertices \o
     << Vertex(c, n0, diffuse), Vertex(ll, n0, diffuse), Vertex(lc, n0, diffuse),
        Vertex(c, n1, diffuse), Vertex(lc, n1, diffuse), Vertex(ss, n1, diffuse),
        Vertex(c, n2, diffuse), Vertex(ss, n2, diffuse), Vertex(rc, n2, diffuse),
        Vertex(c, n3, diffuse), Vertex(rc, n3, diffuse), Vertex(rl, n3, diffuse) >>

\* a slip: the bottom-left quarter is emitted before the bottom-right one
generate_vertices_swapped(geom) ==
  LET c == geom.center
      ls == geom.long_spike_length
      ss == geom.short_spike_length
      lco == geom.left_canyon_offset
      rco == geom.right_canyon_offset
      \* thickness * 0.5; exact, the thickness being an even number of units
      depth == geom.thickness \div 2
      \* top right
      q1 == add_partial_vertices(c, lco, rco,
              Vector3(0, ls, 0), Vector3(ls, 0, 0), Vector3(ss, ss, 0),
              depth, << >>)
      \* bottom left
      q2 == add_partial_vertices(c,
              Vector3(-lco.x, -lco.y, lco.z), Vector3(-rco.x, -rco.y, rco.z),
              Vector3(0, -ls, 0), Vector3(-ls, 0, 0), Vector3(-ss, -ss, 0),
              depth, q1)
      \* bottom right
      q3 == add_partial_vertices(c,
              Vector3(rco.x, -rco.y, lco.z), Vector3(lco.x, -lco.y, rco.z),
              Vector3(ls, 0, 0), Vector3(0, -ls, 0), Vector3(ss, -ss, 0),
              depth, q2)
      \* top left
      q4 == add_partial_vertices(c,
              Vector3(-rco.x, rco.y, lco.z), Vector3(-lco.x, lco.y, rco.z),
              Vector3(-ls, 0, 0), Vector3(0, ls, 0), Vector3(-ss, ss, 0),
              depth, q3)
  IN q4

\* a slip: the bottom-left quarter's first long spike is not mirrored
generate_vertices_unmirrored_tip(geom) ==
  LET c == geom.center
      ls == geom.long_spike_length
      ss == geom.short_spike_length
      lco == geom.left_canyon_offset
      rco == geom.right_canyon_offset
      \* thickness * 0.5; exact, the thickness being an even number of units
      depth == geom.thickness \div 2
      \* top right
      q1 == add_partial_vertices(c, lco, rco,
              Vector3(0, ls, 0), Vector3(ls, 0, 0), Vector3(ss, ss, 0),
              depth, << >>)
      \* bottom right
      q2 == add_partial_vertices(c,
              Vector3(rco.x, -rco.y, lco.z), Vector3(lco.x, -lco.y, rco.z),
              Vector3(ls, 0, 0), Vector3(0, -ls, 0), Vector3(ss, -ss, 0),
              depth, q1)
      \* bottom left
      q3 == add_partial_vertices(c,
              Vector3(-lco.x, -lco.y, lco.z), Vector3(-rco.x, -rco.y, rco.z),
              Vector3(0, ls, 0), Vector3(-ls, 0, 0), Vector3(-ss, -ss, 0),
              depth, q2)
      \* top left
      q4 == add_partial_vertices(c,
              Vector3(-rco.x, rco.y, lco.z), Vector3(-lco.x, lco.y, rco.z),
              Vector3(-ls, 0, 0), Vector3(0, ls, 0), Vector3(-ss, ss, 0),
              depth, q3)
  IN q4

generate_vertices(geom) ==
  LET c == geom.center
      ls == geom.long_spike_length
      ss == geom.short_spike_length
      lco == geom.left_canyon_offset
      rco == geom.right_canyon_offset
      \* thickness * 0.5; exact, the thickness being an even number of units
      depth == geom.thickness \div 2
      \* top right
      q1 == add_partial_vertices(c, lco, rco,
              Vector3(0, ls, 0), Vector3(ls, 0, 0), Vector3(ss, ss, 0),
              depth, << >>)
      \* bottom right
      q2 == add_partial_vertices(c,
              Vector3(rco.x, -rco.y, lco.z), Vector3(lco.x, -lco.y, rco.z),
              Vector3(ls, 0, 0), Vector3(0, -ls, 0), Vector3(ss, -ss, 0),
              depth, q1)
      \* bottom left
      q3 == add_partial_vertices(c,
              Vector3(-lco.x, -lco.y, lco.z), Vector3(-rco.x, -rco.y, rco.z),
              Vector3(0, -ls, 0), Vector3(-ls, 0, 0), Vector3(-ss, -ss, 0),
              depth, q2)
      \* top left
      q4 == add_partial_vertices(c,
              Vector3(-rco.x, rco.y, lco.z), Vector3(-lco.x, lco.y, rco.z),
              Vector3(-ls, 0, 0), Vector3(0, ls, 0), Vector3(-ss, ss, 0),
              depth, q3)
  IN q4

----------------------------------------------------------------------------
(* The GL context.  glGen* and glCreate* hand out the lowest unused name of
   their namespace; name 0 is never an object.  A call that raises a GL
   error has no effect, and the check_error right after it reports it. *)

NewContext ==
  [ shaders |-> {},                 \* live shader objects
    programs |-> << >>,             \* live programs -> their light-direction uniform
    vertex_arrays |-> << >>,        \* live vertex arrays -> attribute state
    buffers |-> << >>,              \* live buffers -> uploaded vertex data
    current_program |-> 0,
    vertex_array_binding |-> 0,
    array_buffer_binding |-> 0 ]

\* the lowest name (from 1) not in used
FreeName(used) ==
  CHOOSE n \in 1..(Cardinality(used) + 1) :
    n \notin used /\ \A m \in 1..(n - 1) : m \in used

Put(f, k, v) == [n \in (DOMAIN f) \cup {k} |-> IF n = k THEN v ELSE f[n]]
Drop(f, k) == [n \in (DOMAIN f) \ {k} |-> f[n]]

ProgramNames(g) == g.shaders \cup DOMAIN g.programs

\* glutil::compile_shader: a new shader object
compile_shader(g) ==
  LET n == FreeName(ProgramNames(g))
  IN [name |-> n, gl |-> [g EXCEPT !.shaders = @ \cup {n}]]

\* glutil::link_program: a new program object with both shaders attached
link_program(g, vs, fs) ==
  LET n == FreeName(ProgramNames(g))
  IN [name |-> n, gl |-> [g EXCEPT !.programs = Put(@, n, Vector3(0, 0, 0))]]

\* glutil::remove_shader: detach the shader from the program and delete it
remove_shader(g, prog, shader) == [g EXCEPT !.shaders = @ \ {shader}]

\* glutil::remove_program: delete the program; 0 is silently ignored
remove_program(g, prog) ==
  IF prog \in DOMAIN g.programs
  THEN [g EXCEPT !.programs = Drop(@, prog),
                 !.current_program = IF @ = prog THEN 0 ELSE @]
  ELSE g

GenVertexArrays(g) ==
  LET n == FreeName(DOMAIN g.vertex_arrays)
  IN [name |-> n,
      gl |-> [g EXCEPT !.vertex_arrays = Put(@, n, [enabled |-> {}, pointers |-> {}])]]

BindVertexArray(g, vao) == [g EXCEPT !.vertex_array_binding = vao]

GenBuffers(g) ==
  LET n == FreeName(DOMAIN g.buffers)
  IN [name |-> n, gl |-> [g EXCEPT !.buffers = Put(@, n, << >>)]]

BindBuffer(g, vbo) == [g EXCEPT !.array_buffer_binding = vbo]

\* upload to the buffer bound to ARRAY_BUFFER
BufferData(g, data) == [g EXCEPT !.buffers[g.array_buffer_binding] = data]

\* on the bound vertex array
EnableVertexAttribArray(g, index) ==
  [g EXCEPT !.vertex_arrays[g.vertex_array_binding].enabled = @ \cup {index}]

VertexAttribPointer(g, index, size, stride, offset) ==
  [g EXCEPT !.vertex_arrays[g.vertex_array_binding].pointers =
     @ \cup {[index |-> index, size |-> size, stride |-> stride,
              offset |-> offset, buffer |-> g.array_buffer_binding]}]

\* names that are no object (0 among them) are silently ignored
DeleteBuffers(g, vbo) ==
  IF vbo \in DOMAIN g.buffers
  THEN [g EXCEPT !.buffers = Drop(@, vbo),
                 !.array_buffer_binding = IF @ = vbo THEN 0 ELSE @]
  ELSE g

DeleteVertexArrays(g, vao) ==
  IF vao \in DOMAIN g.vertex_arrays
  THEN [g EXCEPT !.vertex_arrays = Drop(@, vao),
                 !.vertex_array_binding = IF @ = vao THEN 0 ELSE @]
  ELSE g

UseProgram(g, prog) == [g EXCEPT !.current_program = prog]

Uniform3f(g, v) == [g EXCEPT !.programs[g.current_program] = v]

\* every GL object the context holds, tagged by kind
LiveObjects(g) ==
  {<<"shader", n>> : n \in g.shaders}
    \cup {<<"program", n>> : n \in DOMAIN g.programs}
    \cup {<<"vertex_array", n>> : n \in DOMAIN g.vertex_arrays}
    \cup {<<"buffer", n>> : n \in DOMAIN g.buffers}

----------------------------------------------------------------------------
(* ChristmasStar *)

\* the fallible steps of init before init_buffers, in program order
ShaderSteps ==
  << "read_vertex_shader", "read_fragment_shader",
     "compile_vertex_shader", "compile_fragment_shader", "link_program" >>

\* the GL calls of init_buffers that a check_error follows, in program order
BufferSteps ==
  << "GenVertexArrays", "BindVertexArray", "GenBuffers", "BindBuffer",
     "BufferData",
     "EnableVertexAttribArray0", "EnableVertexAttribArray1",
     "EnableVertexAttribArray2",
     "VertexAttribPointer0", "VertexAttribPointer1", "VertexAttribPointer2" >>

InitSteps == ShaderSteps \o BufferSteps

\* the GL calls of draw that a check_error follows, in program order
DrawSteps ==
  << "UseProgram", "GetUniformLocation", "Uniform3f", "DrawBindVertexArray",
     "DrawArrays" >>

Range(seq) == {seq[i] : i \in DOMAIN seq}

\* an outcome is "ok" or the step that returned the error
Outcomes(steps) == Range(steps) \cup {"ok"}

ControlStates ==
  [move_up : BOOLEAN, move_down : BOOLEAN, move_left : BOOLEAN, move_right : BOOLEAN]

NoControl ==
  [move_up |-> FALSE, move_down |-> FALSE, move_left |-> FALSE, move_right |-> FALSE]

\* the call log
Log(op, err, cs, freed) ==
  /\ lastOp' = [op |-> op, err |-> err, cs |-> cs, freed |-> freed]
  /\ prevOp' = [op |-> lastOp.op, err |-> lastOp.err]

\* the state new() builds: the default star, no GL object, the light at
\* (0.4, 0.5, 0.5)
new ==
  [ geometry |->
      [ center |-> Vector3(0, 0, 0),
        left_canyon_offset |-> Vector3(1, 2, 0),
        right_canyon_offset |-> Vector3(2, 1, 0),
        long_spike_length |-> 16,
        short_spike_length |-> 6,
        thickness |-> 2 ],
    resource |-> [shader_program |-> 0, vao |-> 0, vbo |-> 0, indice_num |-> 0],
    directional |->
      [ name |-> "direction_to_light",
        position |-> Vector3(429496736, 536870912, 536870912) ] ]

\* the shape parameters the mesh generator is checked on: the default star
\* and degenerate and off-centre variants of it
GeometrySet ==
  [ center : {Vector3(0, 0, 0), Vector3(1, -2, 3)},
    left_canyon_offset : {Vector3(1, 2, 0), Vector3(0, 0, 0)},
    right_canyon_offset : {Vector3(2, 1, 0), Vector3(3, 1, 1)},
    long_spike_length : {0, 3, 16},
    short_spike_length : {0, 6},
    thickness : {0, 2} ]

\* generate_vertices, tabulated once for the geometries of the model
VertexTable == {<<g, generate_vertices(g)>> : g \in GeometrySet \cup {new.geometry}}

Vertices(geom) == (CHOOSE p \in VertexTable : p[1] = geom)[2]

\* a geometry coordinate (units of 0.05) as the f32 that holds it
F32OfUnits(k) ==
  LET m == F32Round((Abs(k) * 268435456) \div 5)
  IN IF k < 0 THEN -m ELSE m

\* one step of init before init_buffers, on the locals of init
ShaderStep(step, st) ==
  CASE step = "compile_vertex_shader" ->
         LET c == compile_shader(st.gl) IN [st EXCEPT !.gl = c.gl, !.vs = c.name]
    [] step = "compile_fragment_shader" ->
         LET c == compile_shader(st.gl) IN [st EXCEPT !.gl = c.gl, !.fs = c.name]
    [] step = "link_program" ->
         LET l == link_program(st.gl, st.vs, st.fs)
         IN \* remove shaders since we've finished linking it
            [st EXCEPT !.prog = l.name,
                       !.gl = remove_shader(remove_shader(l.gl, l.name, st.vs),
                                            l.name, st.fs)]
    [] OTHER -> st    \* reading a shader file

\* one GL call of init_buffers, on the locals of init_buffers
BufferStep(step, st) ==
  LET vertice_size == 40
      float_size == 4
      stride == vertice_size
  IN CASE step = "GenVertexArrays" ->
            LET a == GenVertexArrays(st.gl) IN [st EXCEPT !.gl = a.gl, !.vao = a.name]
       [] step = "BindVertexArray" -> [st EXCEPT !.gl = BindVertexArray(@, st.vao)]
       [] step = "GenBuffers" ->
            LET b == GenBuffers(st.gl) IN [st EXCEPT !.gl = b.gl, !.vbo = b.name]
       [] step = "BindBuffer" -> [st EXCEPT !.gl = BindBuffer(@, st.vbo)]
       [] step = "BufferData" ->
            [st EXCEPT !.gl = BufferData(@, st.vertices),
                       !.indice_num = Len(st.vertices)]
       [] step = "EnableVertexAttribArray0" ->
            [st EXCEPT !.gl = EnableVertexAttribArray(@, 0)]
       [] step = "EnableVertexAttribArray1" ->
            [st EXCEPT !.gl = EnableVertexAttribArray(@, 1)]
       [] step = "EnableVertexAttribArray2" ->
            [st EXCEPT !.gl = EnableVertexAttribArray(@, 2)]
       [] step = "VertexAttribPointer0" ->
            [st EXCEPT !.gl = VertexAttribPointer(@, 0, 3, stride, 0)]
       [] step = "VertexAttribPointer1" ->
            [st EXCEPT !.gl = VertexAttribPointer(@, 1, 3, stride, float_size * 3)]
       [] step = "VertexAttribPointer2" ->
            [st EXCEPT !.gl = VertexAttribPointer(@, 2, 4, stride, float_size * (3 + 3))]

\* one GL call of draw, on the context and the star
DrawStep(step, st) ==
  LET c == st.center
      p == st.position
      dir_to_light ==
        Vector3(F32Add(p.x, -F32OfUnits(c.x)), F32Add(p.y, -F32OfUnits(c.y)),
                F32Add(p.z, -F32OfUnits(c.z)))
  IN CASE step = "UseProgram" -> [st EXCEPT !.gl = UseProgram(@, st.r.shader_program)]
       [] step = "Uniform3f" -> [st EXCEPT !.gl = Uniform3f(@, dir_to_light)]
       [] step = "DrawBindVertexArray" -> [st EXCEPT !.gl = BindVertexArray(@, st.r.vao)]
       [] OTHER -> st    \* GetUniformLocation, DrawArrays: no context state

Exec(step, st) ==
  IF step \in Range(ShaderSteps) THEN ShaderStep(step, st)
  ELSE IF step \in Range(BufferSteps) THEN BufferStep(step, st)
  ELSE DrawStep(step, st)

\* the steps in order, up to the one that returns the error: the call that
\* raised it had no effect, and try! returns before the next
RECURSIVE RunSteps(_, _, _)
RunSteps(st, steps, fail) ==
  IF steps = << >> \/ Head(steps) = fail THEN st
  ELSE RunSteps(Exec(Head(steps), st), Tail(steps), fail)

init_buffers(g, geom, fail) ==
  LET vertices == Vertices(geom)
      st == RunSteps([gl |-> g, vao |-> 0, vbo |-> 0, indice_num |-> 0,
                      vertices |-> vertices], BufferSteps, fail)
  IN IF fail \in Range(BufferSteps)
     THEN [ok |-> FALSE, vao |-> 0, vbo |-> 0, indice_num |-> 0, gl |-> st.gl]
     ELSE [ok |-> TRUE, vao |-> st.vao, vbo |-> st.vbo, indice_num |-> st.indice_num,
           gl |-> BindVertexArray(st.gl, 0)]

\* a slip: the handles are stored although init_buffers returned an error
InitResultEager(r, prog, bufs) ==
  [r EXCEPT !.shader_program = prog, !.vao = bufs.vao, !.vbo = bufs.vbo,
            !.indice_num = bufs.indice_num]

\* a slip: r.vbo is not stored
InitResultNoVbo(r, prog, bufs) ==
  IF bufs.ok
  THEN [r EXCEPT !.shader_program = prog, !.vao = bufs.vao,
                 !.indice_num = bufs.indice_num]
  ELSE r

\* the resource after init: try! returns before the stores unless every step
\* succeeded
InitResult(r, prog, bufs) ==
  IF bufs.ok
  THEN [r EXCEPT !.shader_program = prog, !.vao = bufs.vao, !.vbo = bufs.vbo,
                 !.indice_num = bufs.indice_num]
  ELSE r

init(fail) ==
  LET st == RunSteps([gl |-> gl, vs |-> 0, fs |-> 0, prog |-> 0], ShaderSteps, fail)
      bufs == IF fail \in Range(ShaderSteps)
              THEN [ok |-> FALSE, vao |-> 0, vbo |-> 0, indice_num |-> 0, gl |-> st.gl]
              ELSE init_buffers(st.gl, geometry, fail)
  IN /\ gl' = bufs.gl
     /\ resource' = InitResult(resource, st.prog, bufs)
     /\ UNCHANGED <<geometry, directional, closedOnce>>
     /\ Log("init", fail, NoControl, {})

HandlesZero(r) == r.shader_program = 0 /\ r.vao = 0 /\ r.vbo = 0
HandlesValid(r) == r.shader_program # 0 /\ r.vao # 0 /\ r.vbo # 0

\* a slip: r.vbo is not reset
ClosedResourceKeepsVbo(r) == [r EXCEPT !.shader_program = 0, !.vao = 0]

\* a slip: r.vao is not reset
ClosedResourceKeepsVao(r) == [r EXCEPT !.shader_program = 0, !.vbo = 0]

\* the handles close leaves
ClosedResource(r) == [r EXCEPT !.shader_program = 0, !.vbo = 0, !.vao = 0]

close ==
  LET r == resource
      g1 == DeleteBuffers(gl, r.vbo)
      g2 == DeleteVertexArrays(g1, r.vao)
      g3 == remove_program(g2, r.shader_program)
      requested == {<<"buffer", r.vbo>>, <<"vertex_array", r.vao>>,
                    <<"program", r.shader_program>>}
  IN /\ gl' = g3
     /\ resource' = ClosedResource(r)
     /\ closedOnce' = (closedOnce \/ HandlesValid(r))
     /\ UNCHANGED <<geometry, directional>>
     /\ Log("close", "ok", NoControl, {d \in requested : d[2] # 0})

\* a slip: move_up adds -delta instead of delta
MovedPositionUpSubtracts(p, cs) ==
  LET delta == Delta
      y1 == IF cs.move_up THEN F32Add(p.y, -delta) ELSE p.y
      y2 == IF cs.move_down THEN F32Add(y1, -delta) ELSE y1
      x1 == IF cs.move_left THEN F32Add(p.x, -delta) ELSE p.x
      x2 == IF cs.move_right THEN F32Add(x1, delta) ELSE x1
  IN Vector3(x2, y2, p.z)

\* the light position after one update
MovedPosition(p, cs) ==
  LET delta == Delta
      y1 == IF cs.move_up THEN F32Add(p.y, delta) ELSE p.y
      y2 == IF cs.move_down THEN F32Add(y1, -delta) ELSE y1
      x1 == IF cs.move_left THEN F32Add(p.x, -delta) ELSE p.x
      x2 == IF cs.move_right THEN F32Add(x1, delta) ELSE x1
  IN Vector3(x2, y2, p.z)

update(cs) ==
  /\ directional' = [directional EXCEPT !.position = MovedPosition(@, cs)]
  /\ UNCHANGED <<geometry, resource, gl, closedOnce>>
  /\ Log("update", "ok", cs, {})

draw(fail) ==
  LET st == RunSteps([gl |-> gl, r |-> resource, center |-> geometry.center,
                      position |-> directional.position], DrawSteps, fail)
  IN \* with no program in use GetUniformLocation raises INVALID_VALUE
     /\ fail \notin {"UseProgram", "GetUniformLocation"}
          => resource.shader_program \in DOMAIN gl.programs
     /\ gl' = IF fail = "ok" THEN UseProgram(BindVertexArray(st.gl, 0), 0) ELSE st.gl
     /\ UNCHANGED <<geometry, resource, directional, closedOnce>>
     /\ Log("draw", fail, NoControl, {})

----------------------------------------------------------------------------
(* Specifications *)

Init ==
  /\ geometry = new.geometry
  /\ resource = new.resource
  /\ directional = new.directional
  /\ gl = NewContext
  /\ lastOp = [op |-> "new", err |-> "ok", cs |-> NoControl, freed |-> {}]
  /\ prevOp = [op |-> "none", err |-> "ok"]
  /\ closedOnce = FALSE
  /\ ops = 0

\* one more call by the host
Called == ops < MaxOps /\ ops' = ops + 1

InitAct == Called /\ \E fail \in Outcomes(InitSteps) : init(fail)
CloseAct == Called /\ close
UpdateAct == Called /\ \E cs \in ControlStates : update(cs)
DrawAct == Called /\ \E fail \in Outcomes(DrawSteps) : draw(fail)

Next == InitAct \/ CloseAct \/ UpdateAct \/ DrawAct

\* the host's calls on one star, in any order
Spec == Init /\ [][Next]_vars

\* the light's Y between MaxDown steps below its start and its start, its X
\* within MaxSide steps of its start
Far(p) ==
  /\ p.y <= new.directional.position.y
  /\ new.directional.position.y - p.y <= MaxDown * Delta
  /\ Abs(p.x - new.directional.position.x) <= MaxSide * Delta

DriftAct == \E cs \in ControlStates : update(cs) /\ Far(directional'.position) /\ UNCHANGED ops

NextUpdate == DriftAct

\* frame after frame of update on one star
SpecUpdate == Init /\ [][NextUpdate]_vars

InitGen ==
  /\ geometry \in GeometrySet
  /\ resource = new.resource
  /\ directional = new.directional
  /\ gl = NewContext
  /\ lastOp = [op |-> "new", err |-> "ok", cs |-> NoControl, freed |-> {}]
  /\ prevOp = [op |-> "none", err |-> "ok"]
  /\ closedOnce = FALSE
  /\ ops = 0

GenAct == ops < MaxGenOps /\ ops' = ops + 1 /\ \E fail \in Outcomes(InitSteps) : init(fail)

NextGen == GenAct

\* init on a star of any geometry of GeometrySet
SpecGen == InitGen /\ [][NextGen]_vars

----------------------------------------------------------------------------
(* Properties *)

\* the GL objects the star's handles name
Referenced(r) ==
  {<<"program", r.shader_program>>, <<"vertex_array", r.vao>>, <<"buffer", r.vbo>>}

\* live GL objects that no handle of the star names
Leaked(g, r) == LiveObjects(g) \ Referenced(r)

\* the vertex arrays that have been uploaded to live buffers
Uploaded == {gl.buffers[b] : b \in DOMAIN gl.buffers} \ {<< >>}

(* C1: between two operations the three handles shader_program, vao and vbo
   are all zero or all non-zero. *)
C1_HandlesAllOrNone == HandlesZero(resource) \/ HandlesValid(resource)

\* an init that failed inside init_buffers, GL objects made, handles still zero
C1_Witness ==
  /\ lastOp.op = "init" /\ lastOp.err = "BufferData"
  /\ HandlesZero(resource)
  /\ Leaked(gl, resource) # {}

(* C2: an init that succeeds on a ready star (nothing leaked so far) leaves
   no live GL object that the handles do not name: the first program, vertex
   array and vertex buffer are not leaked. *)
C2_ReinitDoesNotLeak ==
  [][(/\ lastOp'.op = "init" /\ lastOp'.err = "ok"
      /\ HandlesValid(resource)
      /\ Leaked(gl, resource) = {})
     => Leaked(gl', resource') = {}]_vars

(* C3: when init returns an error, every GL object created during that call
   has been deleted: the live objects are among those live before the call. *)
C3_FailedInitLeavesNothing ==
  [][(lastOp'.op = "init" /\ lastOp'.err # "ok")
     => LiveObjects(gl') \subseteq LiveObjects(gl)]_vars

(* C4, as claimed: once close has been called on a ready star, the star is
   never ready again. *)
C4_NoWayBack == closedOnce => ~HandlesValid(resource)

(* C4, amended: close is not terminal.  The handles of a closed star stay zero
   through update, draw and a failing init, and the one step that makes them
   non-zero again is an init that succeeds, which makes all three valid. *)
C4_OnlyInitReopens ==
  [][(closedOnce /\ HandlesZero(resource) /\ ~HandlesZero(resource'))
     => (lastOp'.op = "init" /\ lastOp'.err = "ok" /\ HandlesValid(resource'))]_vars

\* init, close, init: ready again
C4_Witness ==
  /\ closedOnce
  /\ lastOp.op = "init" /\ lastOp.err = "ok"
  /\ HandlesValid(resource)

(* C5: close on a star whose handles are already zero, or right after another
   close, changes nothing of the star or of the GL context and requests the
   deletion of no object. *)
C5_CloseIdempotent ==
  [][(lastOp'.op = "close" /\ (HandlesZero(resource) \/ lastOp.op = "close"))
     => (/\ resource' = resource
         /\ gl' = gl
         /\ geometry' = geometry
         /\ directional' = directional
         /\ closedOnce' = closedOnce
         /\ lastOp'.freed = {})]_vars

\* init, close, close
C5_Witness ==
  /\ lastOp.op = "close" /\ prevOp.op = "close"
  /\ closedOnce
  /\ lastOp.freed = {}

(* C6: close right after an init that returned an error, whatever the step,
   requests the deletion of live objects only and leaves the three handles
   zero. *)
C6_CloseAfterFailedInit ==
  [][(lastOp'.op = "close" /\ lastOp.op = "init" /\ lastOp.err # "ok")
     => (HandlesZero(resource') /\ lastOp'.freed \subseteq LiveObjects(gl))]_vars

\* shaders linked, the buffer upload failed, then close
C6_Witness ==
  /\ lastOp.op = "close"
  /\ prevOp.op = "init" /\ prevOp.err = "BufferData"
  /\ HandlesZero(resource)

\* what update leaves alone, and what one direction alone does
UpdateFrame(cs, p, q) ==
  /\ q.z = p.z
  /\ UNCHANGED <<geometry, resource, gl>>
  /\ (cs.move_up /\ ~cs.move_down) => q.y = F32Add(p.y, Delta)
  /\ (cs.move_down /\ ~cs.move_up) => q.y = F32Add(p.y, -Delta)
  /\ (~cs.move_up /\ ~cs.move_down) => q.y = p.y
  /\ (cs.move_right /\ ~cs.move_left) => q.x = F32Add(p.x, Delta)
  /\ (cs.move_left /\ ~cs.move_right) => q.x = F32Add(p.x, -Delta)
  /\ (~cs.move_left /\ ~cs.move_right) => q.x = p.x

(* C7, as claimed: update moves Y by one step for move_up alone, leaves Y
   unchanged when move_up and move_down are both set, moves only X for
   move_left / move_right, and never changes Z, the geometry or the handles. *)
C7_DeltasCancel ==
  [][lastOp'.op = "update"
     => LET cs == lastOp'.cs
            p == directional.position
            q == directional'.position
        IN /\ UpdateFrame(cs, p, q)
           /\ (cs.move_up /\ cs.move_down) => q.y = p.y]_vars

(* C7, amended: with move_up and move_down both set Y becomes
   fl(fl(Y + delta) - delta), which is within 2^-24 of Y (64 units) but not
   always Y itself; the rest as claimed. *)
C7_DeltasCancelUpToRounding ==
  [][lastOp'.op = "update"
     => LET cs == lastOp'.cs
            p == directional.position
            q == directional'.position
        IN /\ UpdateFrame(cs, p, q)
           /\ (cs.move_up /\ cs.move_down)
                => (/\ q.y = F32Add(F32Add(p.y, Delta), -Delta)
                    /\ Abs(q.y - p.y) <= 64)]_vars

\* move_up and move_down both set, on a light that has drifted below zero
C7_Witness ==
  /\ lastOp.op = "update"
  /\ lastOp.cs.move_up /\ lastOp.cs.move_down
  /\ directional.position.y < 0

\* the signs of quarter q (0: top right, 1: bottom right, 2: bottom left, 3: top left)
SignX(q) == IF q \in {0, 1} THEN 1 ELSE -1
SignY(q) == IF q \in {0, 3} THEN 1 ELSE -1

\* the quarters come in the order top right, bottom right, bottom left, top
\* left: each quarter's short-spike tip and long-spike tips are on its side
QuadrantOrder(v, geom) ==
  LET c == geom.center
      ls == geom.long_spike_length
      ss == geom.short_spike_length
  IN \A q \in 0..3 :
       /\ v[12 * q + 6].position = Vector3(c.x + SignX(q) * ss, c.y + SignY(q) * ss, c.z)
       /\ {v[12 * q + 2].position, v[12 * q + 12].position}
            = {Vector3(c.x, c.y + SignY(q) * ls, c.z),
               Vector3(c.x + SignX(q) * ls, c.y, c.z)}

(* C8: for every geometry, generate_vertices gives 48 vertices, 12 per quarter
   in the order top right, bottom right, bottom left, top left; two calls give
   the same sequence; a successful init stores 48 as the vertex count. *)
C8_FortyEightVertices ==
  /\ \A v \in Uploaded : Len(v) = 48 /\ QuadrantOrder(v, geometry)
  /\ \A v, w \in Uploaded : v = w
  /\ HandlesValid(resource)
       => (resource.indice_num = 48 /\ Len(gl.buffers[resource.vbo]) = 48)

\* a degenerate star, uploaded twice, the second init successful
C8_Witness ==
  /\ geometry.long_spike_length = 0 /\ geometry.short_spike_length = 0
  /\ Cardinality(DOMAIN gl.buffers) = 2
  /\ \A b \in DOMAIN gl.buffers : gl.buffers[b] # << >>
  /\ HandlesValid(resource) /\ resource.indice_num = 48

\* p reflected about the centre in X and Y
Mirror(p, c) == Vector3(2 * c.x - p.x, 2 * c.y - p.y, p.z)

(* C9: the top-right quarter's LL tip (second vertex) is
   (center.x, center.y + long_spike_length, center.z), the bottom-left
   quarter's is (center.x, center.y - long_spike_length, center.z), and the
   bottom-left quarter's positions are the top-right quarter's reflected about
   the centre in X and Y. *)
C9_MirrorSymmetry ==
  \A v \in Uploaded :
    LET c == geometry.center
        ls == geometry.long_spike_length
    IN /\ v[2].position = Vector3(c.x, c.y + ls, c.z)
       /\ v[26].position = Vector3(c.x, c.y - ls, c.z)
       /\ {v[i].position : i \in 25..36} = {Mirror(v[i].position, c) : i \in 1..12}

\* an off-centre star with long spikes, uploaded
C9_Witness ==
  /\ geometry.center = Vector3(1, -2, 3)
  /\ geometry.long_spike_length = 16
  /\ geometry.left_canyon_offset = Vector3(1, 2, 0)
  /\ Uploaded # {}

\* the 16 faces start at the apex, all three vertices of a face carry one
\* normal, and within a quarter the faces are (C, LL, LC), (C, LC, SS),
\* (C, SS, RC), (C, RC, RL): each face starts where the one before ended
FaceLayout(v, geom) ==
  LET c == geom.center
      apex == Vector3(c.x, c.y, c.z + geom.thickness \div 2)
  IN /\ \A f \in 0..15 :
          /\ v[3 * f + 1].position = apex
          /\ v[3 * f + 1].normal = v[3 * f + 2].normal
          /\ v[3 * f + 1].normal = v[3 * f + 3].normal
     /\ \A f \in 0..15 :
          f % 4 # 3 => v[3 * f + 3].position = v[3 * (f + 1) + 2].position
     /\ v[2].position = Vector3(c.x, c.y + geom.long_spike_length, c.z)
     /\ v[3].position = Vector3(c.x + geom.left_canyon_offset.x,
                                c.y + geom.left_canyon_offset.y, c.z)
     /\ v[6].position = Vector3(c.x + geom.short_spike_length,
                                c.y + geom.short_spike_length, c.z)
     /\ v[9].position = Vector3(c.x + geom.right_canyon_offset.x,
                                c.y + geom.right_canyon_offset.y, c.z)
     /\ v[12].position = Vector3(c.x + geom.long_spike_length, c.y, c.z)

(* C10, as claimed: each face (v0, v1, v2) starts at the apex, is emitted in
   the order (C, LL, LC), (C, LC, SS), (C, SS, RC), (C, RC, RL), carries one
   normal, and that normal points along cross(v1 - v0, v2 - v0) whenever the
   face is not degenerate. *)
C10_NormalOfEmittedOrder ==
  \A v \in Uploaded :
    /\ FaceLayout(v, geometry)
    /\ \A f \in 0..15 :
         LET v0 == v[3 * f + 1].position
             v1 == v[3 * f + 2].position
             v2 == v[3 * f + 3].position
         IN cross(sub(v1, v0), sub(v2, v0)) # Vector3(0, 0, 0)
              => v[3 * f + 1].normal = normalize(cross(sub(v1, v0), sub(v2, v0)))

(* C10, amended: the layout as claimed, but each face's normal is the
   helper's result for (v0, v2, v1), the face's vertices with the last two
   swapped: it points along cross(v2 - v0, v1 - v0), opposite to the emitted
   order's cross(v1 - v0, v2 - v0). *)
C10_NormalOfSwappedOrder ==
  \A v \in Uploaded :
    /\ FaceLayout(v, geometry)
    /\ \A f \in 0..15 :
         LET v0 == v[3 * f + 1].position
             v1 == v[3 * f + 2].position
             v2 == v[3 * f + 3].position
         IN v[3 * f + 1].normal = normalize(cross(sub(v2, v0), sub(v1, v0)))

\* the default star, uploaded: the first face's normal points up (+Z) while
\* the cross product of its emitted order points down
C10_Witness ==
  /\ geometry = new.geometry
  /\ \E v \in Uploaded :
       /\ v[1].normal.z > 0
       /\ cross(sub(v[2].position, v[1].position),
                sub(v[3].position, v[1].position)).z < 0

====
